---- MODULE Spec2Model ----
(***************************************************************************)
(* Model of jules-scratch/verification/verify_footer.py: run_verification  *)
(* drives one browser page through a fixed script of Playwright calls.     *)
(* The page under test (index.html) and the browser are the environment:   *)
(* what a locator resolves to at each poll is chosen by the page.          *)
(***************************************************************************)
EXTENDS Naturals, Integers, Sequences, FiniteSets, TLC

(* ------------------------------ bounds --------------------------------- *)

\* Polls an auto-waiting call makes after the first one before its timeout elapses.
MaxPolls == 2

\* Largest number of elements a locator resolves to.
MaxMatches == 2

\* Runs of the script made one after another against the same index.html.
MaxRuns == 2

(* --------------------------- text matching ------------------------------ *)

\* legal_notice_text, one character per element.
legal_notice_text ==
  << "V", "a", "l", "o", "r", "e", "s", " ", "a", "p", "r", "o",
     "x", "i", "m", "a", "d", "o", "s", " ", "p", "a", "r", "a",
     " ", "o", "r", "i", "e", "n", "t", "a", "ç", "ã", "o", ",",
     " ", "n", "ã", "o", " ", "s", "u", "b", "s", "t", "i", "t",
     "u", "i", " ", "a", "s", "s", "e", "s", "s", "o", "r", "i",
     "a", " ", "j", "u", "r", "í", "d", "i", "c", "a", "." >>

UpperLetters ==
  << "A", "B", "C", "D", "E", "F", "G", "H", "I", "J", "K", "L", "M",
     "N", "O", "P", "Q", "R", "S", "T", "U", "V", "W", "X", "Y", "Z",
     "Ç", "Ã", "Í" >>

LowerLetters ==
  << "a", "b", "c", "d", "e", "f", "g", "h", "i", "j", "k", "l", "m",
     "n", "o", "p", "q", "r", "s", "t", "u", "v", "w", "x", "y", "z",
     "ç", "ã", "í" >>

toLowerCase(c) ==
  IF \E i \in DOMAIN UpperLetters : UpperLetters[i] = c
  THEN LowerLetters[CHOOSE i \in DOMAIN UpperLetters : UpperLetters[i] = c]
  ELSE c

toUpperCase(c) ==
  IF \E i \in DOMAIN LowerLetters : LowerLetters[i] = c
  THEN UpperLetters[CHOOSE i \in DOMAIN LowerLetters : LowerLetters[i] = c]
  ELSE c

LowerCased(s) == [i \in DOMAIN s |-> toLowerCase(s[i])]

IsWhiteSpace(c) == c \in {" ", "\t", "\n"}

\* Positions of s that survive collapsing: every character that is not white
\* space, and the first character of every run of white space.
KeptPositions(s) ==
  {i \in DOMAIN s : ~IsWhiteSpace(s[i]) \/ i = 1 \/ ~IsWhiteSpace(s[i - 1])}

\* Every run of white space becomes one space.
CollapseWhiteSpace(s) ==
  LET K == KeptPositions(s)
      at(n) == CHOOSE i \in K : Cardinality({j \in K : j < i}) = n - 1
  IN  [n \in 1 .. Cardinality(K) |->
         IF IsWhiteSpace(s[at(n)]) THEN " " ELSE s[at(n)]]

Trim(s) ==
  LET a == IF s # << >> /\ s[1] = " " THEN Tail(s) ELSE s
  IN  IF a # << >> /\ a[Len(a)] = " " THEN SubSeq(a, 1, Len(a) - 1) ELSE a

normalizeWhiteSpace(s) == Trim(CollapseWhiteSpace(s))

\* needle occurs in hay as a contiguous run of characters.
Includes(hay, needle) ==
  \E i \in 0 .. (Len(hay) - Len(needle)) :
     \A j \in 1 .. Len(needle) : hay[i + j] = needle[j]

\* A match on the first word of the text alone.
GetByTextFirstWord(text, content) ==
  Includes(LowerCased(normalizeWhiteSpace(content)),
           LowerCased(SubSeq(normalizeWhiteSpace(text), 1, 7)))

\* get_by_text(text, exact=False): white space normalised on both sides, case
\* ignored, the text found anywhere in the element's content.
GetByText(text, content) ==
  Includes(LowerCased(normalizeWhiteSpace(content)),
           LowerCased(normalizeWhiteSpace(text)))

(* --------------------- the page under test: inputs ---------------------- *)

TextIds == {"exact", "embedded", "upper", "spaced", "reworded", "truncated", "empty"}

\* The notice with its spaces turned into line breaks and runs of white space.
SpacedOut(s) ==
  << " ", "\t" >> \o [i \in 1 .. 7 |-> s[i]] \o << "\n", " ", " " >>
     \o [i \in 1 .. (Len(s) - 8) |-> IF s[i + 8] = " " THEN "\n" ELSE s[i + 8]]

\* Text content of the element with id ferias-results, by variant of index.html.
ContainerText(t) ==
  CASE t = "exact"     -> legal_notice_text
    [] t = "embedded"  -> << "T", "o", "t", "a", "l", ":", " ", "R", "$", " " >>
                            \o legal_notice_text \o << " ", "F", "i", "m" >>
    [] t = "upper"     -> [i \in DOMAIN legal_notice_text |-> toUpperCase(legal_notice_text[i])]
    [] t = "spaced"    -> SpacedOut(legal_notice_text) \o << "\n" >>
    [] t = "reworded"  -> << "V", "a", "l", "o", "r", "e", "s", " ", "e", "s", "t", "i",
                             "m", "a", "d", "o", "s", ",", " ", "c", "o", "n", "s", "u",
                             "l", "t", "e", " ", "u", "m", " ", "a", "d", "v", "o", "g",
                             "a", "d", "o", "." >>
    [] t = "truncated" -> SubSeq(legal_notice_text, 1, Len(legal_notice_text) - 1)
    [] OTHER           -> << >>

\* Whether results_container.get_by_text(legal_notice_text, exact=False) can
\* resolve to an element, by variant.
legal_notice_element[t \in TextIds] == GetByText(legal_notice_text, ContainerText(t))

(* ------------------------------ the script ------------------------------ *)

Call(op, target, arg, line) == [op |-> op, target |-> target, arg |-> arg, line |-> line]

\* The script with the screenshot taken as soon as the calculate button was
\* clicked, before the two checks on the results.
ScriptShotBeforeChecks ==
  << Call("launch",         "browser",              "headless", 7),
     Call("new_page",       "browser",              "",         8),
     Call("goto",           "index.html",           "file://",  13),
     Call("expect_hidden",  "loading_placeholder",  "first",    17),
     Call("expect_visible", "calculadoras_section", "",         21),
     Call("click",          "calculadoras_section", "",         22),
     Call("expect_visible", "ferias_button",        "",         26),
     Call("click",          "ferias_button",        "",         27),
     Call("expect_visible", "salario_input",        "",         31),
     Call("fill",           "salario_input",        "5000.00",  32),
     Call("expect_visible", "calculate_button",     "",         36),
     Call("click",          "calculate_button",     "",         37),
     Call("screenshot",     "results_container",    "verification.png", 49),
     Call("expect_visible", "results_container",    "",         41),
     Call("expect_visible", "legal_notice_element", "",         46),
     Call("close",          "browser",              "",         51) >>

\* The calls of run_verification in program order: the Playwright call, the
\* locator (or object) it is made on, its argument, and its source line.
Script ==
  << Call("launch",         "browser",              "headless", 7),
     Call("new_page",       "browser",              "",         8),
     Call("goto",           "index.html",           "file://",  13),
     Call("expect_hidden",  "loading_placeholder",  "first",    17),
     Call("expect_visible", "calculadoras_section", "",         21),
     Call("click",          "calculadoras_section", "",         22),
     Call("expect_visible", "ferias_button",        "",         26),
     Call("click",          "ferias_button",        "",         27),
     Call("expect_visible", "salario_input",        "",         31),
     Call("fill",           "salario_input",        "5000.00",  32),
     Call("expect_visible", "calculate_button",     "",         36),
     Call("click",          "calculate_button",     "",         37),
     Call("expect_visible", "results_container",    "",         41),
     Call("expect_visible", "legal_notice_element", "",         46),
     Call("screenshot",     "results_container",    "verification.png", 49),
     Call("close",          "browser",              "",         51) >>

Locators ==
  {"loading_placeholder", "calculadoras_section", "ferias_button", "salario_input",
   "calculate_button", "results_container", "legal_notice_element"}

\* Calls that wait, polling the page, until their locator is in the wanted state.
WaitingOps == {"expect_hidden", "expect_visible", "click", "fill", "screenshot"}

\* What a locator resolves to at one poll: how many elements match, and whether
\* the first of them is visible.
Observations ==
  {o \in [count : 0 .. MaxMatches, visible : BOOLEAN] : o.count = 0 => ~o.visible}

\* The observation recorded for a call that takes no locator.
NoObs == [count |-> 0, visible |-> FALSE]

\* The notice is located but its visibility is not asserted: whatever the page
\* shows for it is taken.
HoldsNoticeUnchecked(step, o) ==
  IF step.op = "expect_hidden" THEN ~(o.count > 0 /\ o.visible)
  ELSE IF step.target = "legal_notice_element" THEN TRUE
  ELSE o.count = 1 /\ o.visible

\* to_be_visible, click and fill accepting the first of several matches.
HoldsNonStrict(step, o) ==
  IF step.op = "expect_hidden" THEN ~(o.count > 0 /\ o.visible)
  ELSE o.count >= 1 /\ o.visible

\* Whether the page state o lets the call go through.  expect(...first).to_be_hidden()
\* holds when nothing matches or the first match is not visible; every other call
\* is on a strict locator and needs exactly one match, visible.
Holds(step, o) ==
  IF step.op = "expect_hidden" THEN ~(o.count > 0 /\ o.visible)
  ELSE o.count = 1 /\ o.visible

(* ------------------------------- state ---------------------------------- *)

VARIABLES
  page,        \* index.html as it is on disk: what it lacks, its text, whether it renders in time
  env,         \* "healthy": the browser itself works; "faulty": its calls may raise
  png,         \* the file jules-scratch/verification/verification.png
  run,         \* number of the current run
  phase,       \* "body": inside the with block; "unwinding": leaving it; "exited": process ended
  pc,          \* index in Script of the call being made
  waited,      \* polls of the current call that found the page not ready
  browser,     \* "none", "open" or "closed"
  pages,       \* pages opened in the browser during this run
  log,         \* the calls completed in this run, in order, with their outcome
  exitStatus   \* exit status of the process, -1 while it runs

vars == << page, env, png, run, phase, pc, waited, browser, pages, log, exitStatus >>

NoFile == [exists |-> FALSE, text |-> "empty", run |-> 0, writes |-> 0, replaced |-> FALSE]

\* The variants of index.html: the file or one element of the workflow may be
\* missing (whether the notice is there is a matter of the container's text).
Pages ==
  [lacks : {"none", "index.html"} \cup (Locators \ {"legal_notice_element"}),
   text : TextIds, timely : BOOLEAN]

\* What the locator of call k can resolve to at this poll of this page.
PageShows(k) ==
  LET step == Script[k]
      gone == \/ page.lacks = step.target
              \/ step.target = "legal_notice_element"
                   /\ (page.lacks = "results_container" \/ ~legal_notice_element[page.text])
  IN  {o \in Observations :
         /\ gone => o.count = 0
         /\ (page.timely /\ ~gone /\ waited = MaxPolls) => Holds(step, o)}

Init ==
  /\ page \in Pages
  /\ env \in {"healthy", "faulty"}
  /\ png = NoFile
  /\ run = 1
  /\ phase = "body"
  /\ pc = 1
  /\ waited = 0
  /\ browser = "none"
  /\ pages = 0
  /\ log = << >>
  /\ exitStatus = -1

Entry(k, ok, o) ==
  [op |-> Script[k].op, target |-> Script[k].target, arg |-> Script[k].arg,
   ok |-> ok, obs |-> o, page |-> pages]

\* The call at k returned and the statement after the next one runs.
ReturnedSkipping(k, o) ==
  /\ log' = Append(log, Entry(k, TRUE, o))
  /\ pc' = IF k + 2 <= Len(Script) THEN k + 2 ELSE k + 1
  /\ waited' = 0
  /\ phase' = IF k = Len(Script) THEN "unwinding" ELSE "body"

\* The call at k returned: the next statement runs.
Returned(k, o) ==
  /\ log' = Append(log, Entry(k, TRUE, o))
  /\ pc' = k + 1
  /\ waited' = 0
  /\ phase' = IF k = Len(Script) THEN "unwinding" ELSE "body"

\* The failed call is recorded and the script goes on with the next statement.
RaisedSwallowed(k, o) ==
  /\ log' = Append(log, Entry(k, FALSE, o))
  /\ pc' = k + 1
  /\ waited' = 0
  /\ phase' = IF k = Len(Script) THEN "unwinding" ELSE "body"

\* The call at k raised: nothing in run_verification catches it, so control
\* leaves the with block.
Raised(k, o) ==
  /\ log' = Append(log, Entry(k, FALSE, o))
  /\ pc' = k
  /\ waited' = 0
  /\ phase' = "unwinding"

\* Opening the output file for exclusive creation: a file already there is kept.
WriteFileExclusive(f) ==
  IF f.exists THEN f
  ELSE [exists |-> TRUE, text |-> page.text, run |-> run, writes |-> 1, replaced |-> FALSE]

\* screenshot(path=...) writes the image of the results container to the fixed
\* path, whatever is there already.
WriteFile(f) ==
  [exists |-> TRUE, text |-> page.text, run |-> run,
   writes |-> IF f.exists /\ f.run = run THEN f.writes + 1 ELSE 1,
   replaced |-> f.exists]

\* Leaving the with block without touching the browser the driver launched.
DriverStoppedLeavesBrowser(b) == b

\* sync_playwright().__exit__ stops the driver, which closes a browser it
\* launched that is still open.
DriverStopped(b) == IF b = "open" THEN "closed" ELSE b

\* Every exception is caught before it leaves run_verification.
PropagatingNever == FALSE

\* An exception is on its way out of run_verification.
Propagating == log # << >> /\ ~log[Len(log)].ok

(* ------------------------------ actions --------------------------------- *)

AtCall(op) == phase = "body" /\ pc \in DOMAIN Script /\ Script[pc].op = op

\* line 7: browser = p.chromium.launch(headless=True)
Launch ==
  /\ AtCall("launch")
  /\ browser' = "open"
  /\ Returned(pc, NoObs)
  /\ UNCHANGED << page, env, png, run, pages, exitStatus >>

\* line 8: page = browser.new_page()
NewPage ==
  /\ AtCall("new_page")
  /\ browser = "open"
  /\ pages' = pages + 1
  /\ Returned(pc, NoObs)
  /\ UNCHANGED << page, env, png, run, browser, exitStatus >>

\* line 13: page.goto(file://<cwd>/index.html), the file being there
Goto ==
  /\ AtCall("goto")
  /\ page.lacks # "index.html"
  /\ Returned(pc, NoObs)
  /\ UNCHANGED << page, env, png, run, browser, pages, exitStatus >>

\* line 13: page.goto raises when index.html is not in the working directory
GotoFails ==
  /\ AtCall("goto")
  /\ page.lacks = "index.html"
  /\ Raised(pc, NoObs)
  /\ UNCHANGED << page, env, png, run, browser, pages, exitStatus >>

\* line 51: browser.close()
Close ==
  /\ AtCall("close")
  /\ browser' = "closed"
  /\ Returned(pc, NoObs)
  /\ UNCHANGED << page, env, png, run, pages, exitStatus >>

\* lines 7, 8, 13, 51: a call on the browser raises (no browser to launch, the
\* browser crashed)
BrowserCallRaises ==
  /\ phase = "body" /\ pc \in DOMAIN Script
  /\ Script[pc].op \in {"launch", "new_page", "goto", "close"}
  /\ env = "faulty"
  /\ Raised(pc, NoObs)
  /\ UNCHANGED << page, env, png, run, browser, pages, exitStatus >>

AtWait == phase = "body" /\ pc \in DOMAIN Script /\ Script[pc].op \in WaitingOps

\* lines 17-49: the call finds its locator in the wanted state and returns;
\* the screenshot call then writes the file
WaitPasses ==
  /\ AtWait
  /\ \E o \in PageShows(pc) :
       /\ Holds(Script[pc], o)
       /\ Returned(pc, o)
  /\ png' = IF Script[pc].op = "screenshot" THEN WriteFile(png) ELSE png
  /\ UNCHANGED << page, env, run, browser, pages, exitStatus >>

\* lines 17-49: the locator is not in the wanted state yet and the timeout has
\* not elapsed: the call polls again
WaitRetries ==
  /\ AtWait
  /\ waited < MaxPolls
  /\ \E o \in PageShows(pc) : ~Holds(Script[pc], o)
  /\ waited' = waited + 1
  /\ UNCHANGED << page, env, png, run, phase, pc, browser, pages, log, exitStatus >>

\* The call starts its wait over when the timeout elapses.
WaitStartsOver ==
  /\ AtWait
  /\ waited = MaxPolls
  /\ \E o \in PageShows(pc) : ~Holds(Script[pc], o)
  /\ waited' = 0
  /\ UNCHANGED << page, env, png, run, phase, pc, browser, pages, log, exitStatus >>

\* lines 17-49: the timeout elapses with the locator still not in the wanted
\* state: the call raises
WaitTimesOut ==
  /\ AtWait
  /\ waited = MaxPolls
  /\ \E o \in PageShows(pc) :
       /\ ~Holds(Script[pc], o)
       /\ Raised(pc, o)
  /\ UNCHANGED << page, env, png, run, browser, pages, exitStatus >>

\* lines 6, 53-54: control leaves the with block, by the end of the body or
\* by an exception, and the process ends
WithExit ==
  /\ phase = "unwinding"
  /\ browser' = DriverStopped(browser)
  /\ exitStatus' = IF Propagating THEN 1 ELSE 0
  /\ phase' = "exited"
  /\ UNCHANGED << page, env, png, run, pc, waited, pages, log >>

\* lines 53-54: the script is started again, index.html being unchanged
StartRun ==
  /\ phase = "exited"
  /\ run < MaxRuns
  /\ run' = run + 1
  /\ phase' = "body"
  /\ pc' = 1
  /\ waited' = 0
  /\ browser' = "none"
  /\ pages' = 0
  /\ log' = << >>
  /\ exitStatus' = -1
  /\ UNCHANGED << page, env, png >>

Next ==
  \/ Launch
  \/ NewPage
  \/ Goto
  \/ GotoFails
  \/ Close
  \/ BrowserCallRaises
  \/ WaitPasses
  \/ WaitRetries
  \/ WaitTimesOut
  \/ WithExit
  \/ StartRun

Spec == Init /\ [][Next]_vars

\* The script is one synchronous thread: whenever it can take a step it does.
FairSpec == Spec /\ WF_vars(Next)

(* ------------------------ vocabulary of the claims ----------------------- *)

Exited == phase = "exited"

Failed(i) == i \in DOMAIN log /\ ~log[i].ok

Passed(i) == i \in DOMAIN log /\ log[i].ok

IsCall(i, op, target) == i \in DOMAIN log /\ log[i].op = op /\ log[i].target = target

LastFailedAt(op, target) == log # << >> /\ IsCall(Len(log), op, target) /\ Failed(Len(log))

\* The expect(...) assertions that were made and passed in this run.
PassedAssertions ==
  {i \in DOMAIN log : log[i].op \in {"expect_hidden", "expect_visible"} /\ log[i].ok}

\* The state an assertion asks for was the state of the page when it was checked.
HeldWhenChecked(i) ==
  IF log[i].op = "expect_hidden"
  THEN ~log[i].obs.visible
  ELSE log[i].obs.visible /\ log[i].obs.count >= 1

\* The written order of the interactions, with the visibility assertion that
\* precedes each click and fill.
FixedOrder ==
  << << "launch", "browser", "headless" >>,
     << "new_page", "browser", "" >>,
     << "goto", "index.html", "file://" >>,
     << "expect_hidden", "loading_placeholder", "first" >>,
     << "expect_visible", "calculadoras_section", "" >>,
     << "click", "calculadoras_section", "" >>,
     << "expect_visible", "ferias_button", "" >>,
     << "click", "ferias_button", "" >>,
     << "expect_visible", "salario_input", "" >>,
     << "fill", "salario_input", "5000.00" >>,
     << "expect_visible", "calculate_button", "" >>,
     << "click", "calculate_button", "" >>,
     << "expect_visible", "results_container", "" >>,
     << "expect_visible", "legal_notice_element", "" >>,
     << "screenshot", "results_container", "verification.png" >>,
     << "close", "browser", "" >> >>

\* index.html renders every element of the workflow in time and shows the
\* notice as written, and the browser works.
CorrectlyRendered ==
  /\ page.lacks = "none"
  /\ page.timely
  /\ page.text \in {"exact", "embedded"}
  /\ env = "healthy"

\* The container text of variant t holds the notice once case and the layout
\* of white space are set aside.
containsIgnoringCaseAndSpacing[t \in TextIds] ==
  Includes(LowerCased(normalizeWhiteSpace(ContainerText(t))),
           LowerCased(normalizeWhiteSpace(legal_notice_text)))

\* The container text of variant t holds the notice character for character.
containsExactly[t \in TextIds] == Includes(ContainerText(t), legal_notice_text)

(* ------------------------------- claims --------------------------------- *)

\* C1: the first call that fails aborts the run: a failed call is the last call
\* of the run, no call is in progress after it, and no call is made twice.  A
\* page without the Ferias button, once the Calculadoras click went through,
\* fails the run at the Ferias visibility assertion and the salary field is
\* never filled; a placeholder that stays visible leaves every click unattempted.
C1_FirstFailureAborts ==
  /\ \A i \in DOMAIN log : Failed(i) => i = Len(log) /\ phase # "body"
  /\ \A i, j \in DOMAIN log :
       i # j => << log[i].op, log[i].target >> # << log[j].op, log[j].target >>
  /\ LastFailedAt("expect_hidden", "loading_placeholder") =>
       \A i \in DOMAIN log : log[i].op \notin {"click", "fill", "screenshot", "close"}
  /\ (Exited /\ page.lacks = "ferias_button"
        /\ \E i \in DOMAIN log : IsCall(i, "click", "calculadoras_section") /\ Passed(i)) =>
       /\ exitStatus = 1
       /\ LastFailedAt("expect_visible", "ferias_button")
       /\ \A i \in DOMAIN log : log[i].op # "fill"

C1_Witness ==
  /\ Exited
  /\ page.lacks = "ferias_button"
  /\ LastFailedAt("expect_visible", "ferias_button")
  /\ Len(log) = 7

\* C2 (as stated): a run that completes without raising has made nine
\* assertions and each held when checked.
C2_NineAssertions ==
  (Exited /\ exitStatus = 0) =>
    /\ Cardinality(PassedAssertions) = 9
    /\ \A i \in PassedAssertions : HeldWhenChecked(i)

\* C2 (amended): a run that completes without raising has made the seven
\* expect assertions of the script, one on each of the seven locators, and
\* each held when it was checked.
C2_SevenAssertions ==
  (Exited /\ exitStatus = 0) =>
    /\ Cardinality(PassedAssertions) = 7
    /\ {log[i].target : i \in PassedAssertions} = Locators
    /\ \A i \in PassedAssertions : HeldWhenChecked(i)

C2_Witness ==
  /\ Exited
  /\ exitStatus = 0
  /\ Cardinality(PassedAssertions) = 7

C4_ExitStatus ==
  /\ Exited =>
       /\ exitStatus \in {0, 1}
       /\ exitStatus = 0 <=>
            (Len(log) = Len(FixedOrder) /\ \A i \in DOMAIN log : log[i].ok)
       /\ (\E i \in DOMAIN log : Failed(i)) => exitStatus = 1
  /\ ~Exited => exitStatus = -1

C4_Witness ==
  /\ Exited
  /\ exitStatus = 1
  /\ LastFailedAt("goto", "index.html")

\* C5 (as stated): one page, and every call on a locator, the placeholder
\* check included, goes through only on a unique, visible element.
C5_UniqueVisibleEverywhere ==
  /\ pages <= 1
  /\ \A i \in DOMAIN log :
       (log[i].op \in WaitingOps /\ log[i].ok) =>
         log[i].obs.count = 1 /\ log[i].obs.visible

\* C5 (amended): one page carries every interaction; every call on a locator
\* other than the placeholder check goes through only when the locator
\* resolves to exactly one element and it is visible; the placeholder check
\* goes through when no element matches or the first match is not visible,
\* however many elements match.
C5_UniqueVisibleButPlaceholder ==
  /\ pages <= 1
  /\ \A i \in DOMAIN log : log[i].op \in WaitingOps => log[i].page = 1
  /\ \A i \in DOMAIN log :
       (log[i].op \in WaitingOps /\ log[i].ok) =>
         IF log[i].target = "loading_placeholder" /\ log[i].op = "expect_hidden"
         THEN log[i].obs.count = 0 \/ ~log[i].obs.visible
         ELSE log[i].obs.count = 1 /\ log[i].obs.visible

C5_Witness ==
  /\ Exited
  /\ exitStatus = 0
  /\ log[4].op = "expect_hidden"
  /\ log[4].obs.count = 2

\* C6: every run ends, in success or in failure, and on a correctly rendered
\* page it ends in success.
C6_Terminates ==
  /\ (~Exited) ~> Exited
  /\ (CorrectlyRendered /\ ~Exited) ~> (Exited /\ exitStatus = 0)
  /\ [](CorrectlyRendered /\ Exited => exitStatus = 0)

C6_Witness ==
  /\ Exited
  /\ exitStatus = 1
  /\ log # << >>
  /\ log[Len(log)].op \in {"expect_hidden", "expect_visible"}
  /\ ~log[Len(log)].ok

\* C7: a run changes nothing that persists but the image file: index.html is
\* never changed and the file changes only by the screenshot call; a
\* successful run has written the file exactly once, with the content the page
\* shows, also when a file from an earlier run was there.
C7_OnlyTheImageFile ==
  /\ [][page' = page]_vars
  /\ [][png' # png =>
          /\ Len(log') = Len(log) + 1
          /\ log'[Len(log')].op = "screenshot"
          /\ log'[Len(log')].ok]_vars
  /\ []((Exited /\ exitStatus = 0) =>
          /\ png.exists
          /\ png.run = run
          /\ png.writes = 1
          /\ png.text = page.text)
  /\ [](png.exists => png.writes = 1)

C7_Witness ==
  /\ Exited
  /\ exitStatus = 0
  /\ run = 2
  /\ png.run = 2
  /\ png.replaced

\* C8 (as stated): the legal-notice check passes only if the text of the
\* results container contains the notice, character for character.
C8_ExactSubstring ==
  \A i \in DOMAIN log :
    (IsCall(i, "expect_visible", "legal_notice_element") /\ Passed(i)) =>
      containsExactly[page.text]

\* C8 (amended): the legal-notice check passes only if the text of the results
\* container contains the notice once case and the layout of white space are
\* ignored; on a page whose visible results container does not, the run fails
\* at the legal-notice assertion and no screenshot is taken.
C8_SubstringIgnoringCase ==
  /\ \A i \in DOMAIN log :
       (IsCall(i, "expect_visible", "legal_notice_element") /\ Passed(i)) =>
         containsIgnoringCaseAndSpacing[page.text]
  /\ (/\ Exited
      /\ ~containsIgnoringCaseAndSpacing[page.text]
      /\ \E i \in DOMAIN log : IsCall(i, "expect_visible", "results_container") /\ Passed(i)) =>
       /\ LastFailedAt("expect_visible", "legal_notice_element")
       /\ exitStatus = 1
       /\ png.run # run

C8_Witness ==
  /\ Exited
  /\ page.text = "reworded"
  /\ LastFailedAt("expect_visible", "legal_notice_element")
  /\ Passed(13)

\* C9: the calls of a run are made one at a time in the one written order,
\* none skipped; a click or fill follows the passed visibility assertion on
\* its own locator, the calculate click follows the fill of 5000.00, and the
\* results assertion follows the calculate click.
C9_FixedOrder ==
  /\ Len(log) <= Len(FixedOrder)
  /\ \A i \in DOMAIN log : << log[i].op, log[i].target, log[i].arg >> = FixedOrder[i]
  /\ phase = "body" => pc = Len(log) + 1
  /\ \A i \in DOMAIN log :
       log[i].op \in {"click", "fill"} =>
         /\ i > 1
         /\ IsCall(i - 1, "expect_visible", log[i].target)
         /\ Passed(i - 1)
  /\ \A i \in DOMAIN log :
       IsCall(i, "click", "calculate_button") =>
         \E j \in 1 .. (i - 1) :
            IsCall(j, "fill", "salario_input") /\ Passed(j) /\ log[j].arg = "5000.00"
  /\ \A i \in DOMAIN log :
       IsCall(i, "expect_visible", "results_container") =>
         \E j \in 1 .. (i - 1) : IsCall(j, "click", "calculate_button") /\ Passed(j)

C9_Witness ==
  /\ Exited
  /\ exitStatus = 0
  /\ Len(log) = 16

\* C10: the screenshot is taken only after all seven assertions passed and
\* before the browser is closed; a run in which navigation or an assertion
\* failed has not written the file; nothing is called after browser.close().
C10_ScreenshotLast ==
  /\ \A i \in DOMAIN log :
       log[i].op = "screenshot" =>
         /\ Cardinality({j \in PassedAssertions : j < i}) = 7
         /\ \A j \in 1 .. i : log[j].op # "close"
  /\ png.run = run =>
       \E i \in DOMAIN log : log[i].op = "screenshot" /\ Passed(i)
  /\ (\E i \in DOMAIN log :
        Failed(i) /\ log[i].op \in {"goto", "expect_hidden", "expect_visible"}) =>
       png.run # run
  /\ \A i \in DOMAIN log :
       (log[i].op = "close" /\ log[i].ok) => i = Len(log) /\ phase # "body"

C10_Witness ==
  /\ Exited
  /\ run = 2
  /\ LastFailedAt("expect_visible", "results_container")
  /\ png.exists
  /\ png.run = 1

====
